---- MODULE Spec2Model ----
(***************************************************************************)
(* A model of the NVENC H.264 encoder adapter (struct nvenc_encoder and    *)
(* the callbacks of nvenc_encoder_info): session creation, settings        *)
(* translation, device open, per-frame encode with the one-shot header/SEI *)
(* extraction, the pull accessors, and shutdown with its drain loop.       *)
(*                                                                         *)
(* The hardware device (libavcodec) is the environment: every call into it *)
(* answers with one of the responses its interface allows.                 *)
(*                                                                         *)
(* Spec is the session as a caller drives it.  UpdateSpec, CopySpec,      *)
(* PropsSpec and VideoInfoSpec run nvenc_update, copy_data,                *)
(* rate_control_modified and nvenc_video_info on their own, over wider     *)
(* sets of inputs than a single session sees.  DacastSpec is the DaCast    *)
(* streaming service (rtmp-dacast.c) and FixupSpec the library discovery   *)
(* of fixup_bundle.sh.                                                     *)
(***************************************************************************)
EXTENDS Integers, Sequences, FiniteSets, TLC

VARIABLES
    pc,               \* position of the single caller thread
    handle,           \* what the caller holds: "none" or "enc"
    enc,              \* struct nvenc_encoder
    dev,              \* the device's internal state (frames it has buffered)
    packet,           \* the caller's struct encoder_packet
    received_packet,  \* the caller's bool *received_packet
    out,              \* out-parameters of the accessors
    last,             \* the most recent call and how the device answered it
    hist,             \* history of the session (observation only)
    ui,               \* the settings being edited and their obs_properties_t
    svc,              \* the DaCast service: struct rtmp_dacast and its settings
    sh                \* the shell variables of fixup_bundle.sh

vars == <<pc, handle, enc, dev, packet, received_packet, out, last, hist, ui,
          svc, sh>>

----------------------------------------------------------------------------
(* Bounds of the model *)

\* libraries outside the system directories that a bundle can depend on
NumLibs == 2

\* frames the device can hold back before it must emit one (lookahead depth)
MaxBuffered == 2

\* colour planes of a frame that the model carries
NumPlanes == 2

Planes == 0 .. (NumPlanes - 1)

Min(a, b) == IF a < b THEN a ELSE b

\* the counters of the history saturate: at 2 ("more than once"), the drain
\* loop's at one more than it can need
Bump(n) == Min(n + 1, 2)

BumpDrains(n) == Min(n + 1, MaxBuffered + 2)

----------------------------------------------------------------------------
(* Byte buffers.  A packet is an Annex-B access unit, carried as the       *)
(* sequence of its NAL units; a NAL unit is named by its type.             *)

NalTypes == {"SPS", "PPS", "SEI", "IDR", "SLICE"}

\* a pointer to bytes with its contents; bzalloc leaves pointers null
NullPtr == [null |-> TRUE, bytes |-> <<>>]

Ptr(bytes) == [null |-> FALSE, bytes |-> bytes]

\* the array pointer of a DARRAY: null while it holds nothing
DaPtr(bytes) == IF bytes = <<>> THEN NullPtr ELSE Ptr(bytes)

RECURSIVE SelectNals(_, _)
SelectNals(s, types) ==
    IF s = <<>> THEN <<>>
    ELSE IF Head(s) \in types
         THEN <<Head(s)>> \o SelectNals(Tail(s), types)
         ELSE SelectNals(Tail(s), types)

\* obs_extract_avc_headers: parameter sets -> header, SEI -> sei, the rest
\* -> the new packet
obs_extract_avc_headers(data) ==
    [new_packet |-> SelectNals(data, NalTypes \ {"SPS", "PPS", "SEI"}),
     header     |-> SelectNals(data, {"SPS", "PPS"}),
     sei        |-> SelectNals(data, {"SEI"})]

\* obs_avc_keyframe: the payload holds an IDR NAL unit
obs_avc_keyframe(data) == \E i \in 1 .. Len(data) : data[i] = "IDR"

\* the access units the device emits
DevicePackets ==
    { <<"SPS", "PPS", "SEI", "IDR">>,
      <<"SEI", "SLICE">>,
      <<"SLICE">>,
      <<"SPS", "PPS">> }

\* <<pts, dts>> of the packets the device emits
DeviceTimestamps == {<<0, 0>>, <<1, 0>>}

----------------------------------------------------------------------------
(* Settings, stream properties and their translation (nvenc_update)        *)

\* case folding of the strings the settings use
LowerCase(s) ==
    CASE s = "CBR"      -> "cbr"
      [] s = "VBR"      -> "vbr"
      [] s = "CQP"      -> "cqp"
      [] s = "Lossless" -> "lossless"
      [] s = "HP"       -> "hp"
      [] s = "LLHP"     -> "llhp"
      [] s = "ABR"      -> "abr"
      [] OTHER          -> s

\* astrcmpi: 0 exactly when the strings are equal ignoring case
astrcmpi(a, b) == IF LowerCase(a) = LowerCase(b) THEN 0 ELSE 1

valid_format(format) ==
    \/ format = "VIDEO_FORMAT_I420"
    \/ format = "VIDEO_FORMAT_NV12"
    \/ format = "VIDEO_FORMAT_I444"

\* variant: the source's format is taken whenever the preferred one is not
\* supported
nvenc_video_info_SourceFallback(pref_format, info_format) ==
    IF ~valid_format(pref_format) THEN info_format ELSE pref_format

\* nvenc_video_info: the format written back to info->format
nvenc_video_info(pref_format, info_format) ==
    IF ~valid_format(pref_format)
    THEN (IF valid_format(info_format) THEN info_format ELSE "VIDEO_FORMAT_NV12")
    ELSE pref_format

obs_to_ffmpeg_video_format(format) ==
    CASE format = "VIDEO_FORMAT_I420" -> "AV_PIX_FMT_YUV420P"
      [] format = "VIDEO_FORMAT_NV12" -> "AV_PIX_FMT_NV12"
      [] format = "VIDEO_FORMAT_I444" -> "AV_PIX_FMT_YUV444P"
      [] OTHER                        -> "AV_PIX_FMT_NONE"

\* C integer division (truncates toward zero)
CDiv(a, b) ==
    IF (a >= 0) = (b > 0) THEN (IF a >= 0 THEN a ELSE -a) \div (IF b > 0 THEN b ELSE -b)
    ELSE -((IF a >= 0 THEN a ELSE -a) \div (IF b > 0 THEN b ELSE -b))

\* gop_size when keyint_sec is 0
DefaultGopSize == 250

\* the codec context as avcodec_alloc_context3 hands it out
AllocatedContext ==
    [state |-> "alloc",
     bit_rate |-> 0, rc_buffer_size |-> 0, rc_max_rate |-> 0, rc_min_rate |-> 0,
     global_quality |-> 0, gop_size |-> 0, width |-> 0, height |-> 0,
     max_b_frames |-> 0, pix_fmt |-> "AV_PIX_FMT_NONE",
     colorspace |-> "AVCOL_SPC_UNSPECIFIED", color_range |-> "AVCOL_RANGE_UNSPECIFIED",
     time_base |-> <<0, 1>>,
     priv |-> [cbr |-> FALSE, profile |-> "", preset |-> "", level |-> "",
               twopass |-> FALSE, gpu |-> 0]]

NullContext == [AllocatedContext EXCEPT !.state = "NULL"]

\* variant: the frame rate is truncated to whole frames before multiplying
GopSize_DivideFirst(keyint_sec, fps_num, fps_den) ==
    IF keyint_sec # 0
    THEN keyint_sec * CDiv(fps_num, fps_den)
    ELSE DefaultGopSize

\* the keyframe interval nvenc_update writes to gop_size
GopSize(keyint_sec, fps_num, fps_den) ==
    IF keyint_sec # 0
    THEN CDiv(keyint_sec * fps_num, fps_den)
    ELSE DefaultGopSize

\* variant: the deprecated flag is read and not acted on
EffectiveRc_IgnoresOverride(settings) == settings.rate_control

\* the rate-control string in force: the deprecated "cbr" flag overrides it
EffectiveRc(settings) == IF settings.cbr THEN "CBR" ELSE settings.rate_control

\* variant: the constant-quantizer branch leaves the bitrate alone
ModeBitrate_CqpKeepsBitrate(rc, bitrate) ==
    IF astrcmpi(rc, "lossless") = 0 THEN 0 ELSE bitrate

\* the bitrate local after the mode branches
ModeBitrate(rc, bitrate) ==
    IF astrcmpi(rc, "cqp") = 0 THEN 0
    ELSE IF astrcmpi(rc, "lossless") = 0 THEN 0
    ELSE bitrate

\* variant: the requested preset is compared case-sensitively
ModePreset_CaseSensitive(rc, preset) ==
    IF astrcmpi(rc, "cqp") # 0 /\ astrcmpi(rc, "lossless") = 0
    THEN (IF preset = "hp" \/ preset = "llhp"
          THEN "losslesshp" ELSE "lossless")
    ELSE preset

\* the "preset" private option after the mode branches
ModePreset(rc, preset) ==
    IF astrcmpi(rc, "cqp") # 0 /\ astrcmpi(rc, "lossless") = 0
    THEN (IF astrcmpi(preset, "hp") = 0 \/ astrcmpi(preset, "llhp") = 0
          THEN "losslesshp" ELSE "lossless")
    ELSE preset

\* variant: the last branch is taken for variable bitrate as well
IsCbrBranch_VbrToo(rc) ==
    /\ astrcmpi(rc, "cqp") # 0
    /\ astrcmpi(rc, "lossless") # 0

\* the branch that is CBR by default
IsCbrBranch(rc) ==
    /\ astrcmpi(rc, "cqp") # 0
    /\ astrcmpi(rc, "lossless") # 0
    /\ astrcmpi(rc, "vbr") # 0

\* nvenc_update up to its call of nvenc_init_codec: the parameters written
\* into the codec context
UpdateContext(ctx, settings, voi, encoder) ==
    LET rc      == EffectiveRc(settings)
        bitrate == ModeBitrate(rc, settings.bitrate)
        format  == nvenc_video_info(encoder.pref_format, voi.format)
    IN  [ctx EXCEPT
          !.priv = [cbr     |-> IsCbrBranch(rc),
                    profile |-> settings.profile,
                    preset  |-> ModePreset(rc, settings.preset),
                    level   |-> settings.level,
                    twopass |-> settings.twopass,
                    gpu     |-> settings.gpu],
          !.global_quality = IF astrcmpi(rc, "cqp") = 0 THEN settings.cqp ELSE @,
          !.rc_max_rate = IF IsCbrBranch(rc) THEN settings.bitrate * 1000 ELSE @,
          !.rc_min_rate = IF IsCbrBranch(rc) THEN settings.bitrate * 1000 ELSE @,
          !.bit_rate = bitrate * 1000,
          !.rc_buffer_size = bitrate * 1000,
          !.width = encoder.width,
          !.height = encoder.height,
          !.time_base = <<voi.fps_den, voi.fps_num>>,
          !.pix_fmt = obs_to_ffmpeg_video_format(format),
          !.colorspace = IF voi.colorspace = "VIDEO_CS_709"
                         THEN "AVCOL_SPC_BT709" ELSE "AVCOL_SPC_BT470BG",
          !.color_range = IF voi.range = "VIDEO_RANGE_FULL"
                          THEN "AVCOL_RANGE_JPEG" ELSE "AVCOL_RANGE_MPEG",
          !.max_b_frames = settings.bf,
          !.gop_size = GopSize(settings.keyint_sec, voi.fps_num, voi.fps_den)]

\* nvenc_defaults
DefaultSettings ==
    [rate_control |-> "CBR", bitrate |-> 850, cqp |-> 23, keyint_sec |-> 0,
     preset |-> "default", profile |-> "main", level |-> "auto",
     twopass |-> TRUE, gpu |-> 0, bf |-> 2, cbr |-> FALSE]

\* nvenc_properties: the properties as created, all visible, every list
\* item enabled
nvenc_properties ==
    [rate_control |-> <<"CBR", "VBR", "CQP", "lossless">>,
     bitrate |-> [visible |-> TRUE],
     cqp |-> [visible |-> TRUE],
     preset |-> [i \in 0 .. 6 |->
                   [name |-> <<"default", "hq", "hp", "bd", "ll", "llhq",
                               "llhp">>[i + 1],
                    disabled |-> FALSE]]]

\* variant: the bitrate is hidden for CQP only
rate_control_modified_CqpOnly(ppts, settings) ==
    LET rc       == settings.rate_control
        cqp      == astrcmpi(rc, "CQP") = 0
        lossless == astrcmpi(rc, "lossless") = 0
    IN  [ppts EXCEPT
           !.bitrate.visible = ~cqp,
           !.cqp.visible = cqp,
           !.preset = [i \in DOMAIN @ |->
                         [@[i] EXCEPT !.disabled =
                            lossless /\ ~(i = 0 \/ i = 2)]]]

\* variant: list items are disabled for lossless and never enabled again
rate_control_modified_NeverEnables(ppts, settings) ==
    LET rc       == settings.rate_control
        cqp      == astrcmpi(rc, "CQP") = 0
        lossless == astrcmpi(rc, "lossless") = 0
    IN  [ppts EXCEPT
           !.bitrate.visible = ~cqp /\ ~lossless,
           !.cqp.visible = cqp,
           !.preset = [i \in DOMAIN @ |->
                         [@[i] EXCEPT !.disabled =
                            @ \/ (lossless /\ ~(i = 0 \/ i = 2))]]]

\* rate_control_modified: the properties after the callback
rate_control_modified(ppts, settings) ==
    LET rc       == settings.rate_control
        cqp      == astrcmpi(rc, "CQP") = 0
        lossless == astrcmpi(rc, "lossless") = 0
    IN  [ppts EXCEPT
           !.bitrate.visible = ~cqp /\ ~lossless,
           !.cqp.visible = cqp,
           !.preset = [i \in DOMAIN @ |->
                         [@[i] EXCEPT !.disabled =
                            lossless /\ ~(i = 0 \/ i = 2)]]]

\* no settings view is open
NoUi == [settings |-> DefaultSettings, props |-> nvenc_properties,
         prior |-> ""]   \* rate_control before the user's latest change

\* the settings a session is created with
SessionSettings ==
    { [DefaultSettings EXCEPT !.rate_control = "lossless", !.preset = "hp",
                              !.keyint_sec = 2] }

\* the video output the encoder is attached to
VideoInfos ==
    { [format |-> "VIDEO_FORMAT_NV12", colorspace |-> "VIDEO_CS_709",
       range |-> "VIDEO_RANGE_PARTIAL", fps_num |-> 30, fps_den |-> 1] }

\* height of the encoded picture, in rows
PicHeight == 2

\* the obs_encoder_t the session belongs to
Encoders ==
    { [pref_format |-> "VIDEO_FORMAT_NONE", width |-> 2, height |-> PicHeight] }

----------------------------------------------------------------------------
(* Frames and the staging picture (copy_data)                              *)

\* rows of a plane of a 4:2:0 picture of the session's height
PlaneRows(plane) == IF plane = 0 THEN PicHeight ELSE PicHeight \div 2

\* bytes per row of the staging picture
PicStride == 2

\* the bytes of a plane of rows*stride bytes, each byte telling its position
PlaneBytes(rows, stride, base) ==
    [i \in 1 .. (rows * stride) |-> (base + i) % 4]

\* AVPicture before avpicture_alloc (the zeroed struct) and after it
NullPicture ==
    [alloc |-> FALSE, linesize |-> [p \in Planes |-> 0],
     data |-> [p \in Planes |-> <<>>]]

AllocatedPicture ==
    [alloc |-> TRUE, linesize |-> [p \in Planes |-> PicStride],
     data |-> [p \in Planes |-> [i \in 1 .. (PlaneRows(p) * PicStride) |-> 0]]]

\* the frames the caller submits: struct encoder_frame
Frames ==
    { [data |-> [p \in Planes |-> Ptr(PlaneBytes(PlaneRows(p), PicStride, p))],
       linesize |-> [p \in Planes |-> PicStride], pts |-> 0],
      [data |-> [p \in Planes |->
                   IF p = 0 THEN Ptr(PlaneBytes(PlaneRows(p), PicStride + 1, 2))
                   ELSE NullPtr],
       linesize |-> [p \in Planes |-> PicStride + 1], pts |-> 1] }

\* variant: the source row is looked up with the picture's row size
CopyPlane_SameRowSize(dst, src, frame_rowsize, pic_rowsize, plane_height) ==
    LET bytes == IF frame_rowsize < pic_rowsize THEN frame_rowsize ELSE pic_rowsize
    IN  [i \in 1 .. Len(dst) |->
           LET y == (i - 1) \div pic_rowsize
               x == (i - 1) % pic_rowsize
               pos == y * pic_rowsize + x + 1
           IN  IF y < plane_height /\ x < bytes
               THEN (IF pos <= Len(src) THEN src[pos] ELSE 0)
               ELSE dst[i]]

\* no frame: every plane pointer null
NoFrame ==
    [data |-> [p \in Planes |-> NullPtr], linesize |-> [p \in Planes |-> 0],
     pts |-> 0]

\* one plane of copy_data: plane_height rows of `bytes` bytes each
CopyPlane(dst, src, frame_rowsize, pic_rowsize, plane_height) ==
    LET bytes == IF frame_rowsize < pic_rowsize THEN frame_rowsize ELSE pic_rowsize
    IN  [i \in 1 .. Len(dst) |->
           LET y == (i - 1) \div pic_rowsize
               x == (i - 1) % pic_rowsize
           IN  IF y < plane_height /\ x < bytes
               THEN src[y * frame_rowsize + x + 1]
               ELSE dst[i]]

\* variant: every plane is taken to have half the height
copy_data_HalfHeight(pic, frame, height) ==
    [pic EXCEPT !.data =
        [plane \in Planes |->
            IF frame.data[plane].null
            THEN pic.data[plane]
            ELSE CopyPlane(pic.data[plane], frame.data[plane].bytes,
                           frame.linesize[plane], pic.linesize[plane],
                           height \div 2)]]

\* copy_data: the picture after the frame has been staged into it
copy_data(pic, frame, height) ==
    [pic EXCEPT !.data =
        [plane \in Planes |->
            IF frame.data[plane].null
            THEN pic.data[plane]
            ELSE CopyPlane(pic.data[plane], frame.data[plane].bytes,
                           frame.linesize[plane], pic.linesize[plane],
                           IF plane = 0 THEN height ELSE height \div 2)]]

----------------------------------------------------------------------------
(* The device: avcodec_encode_video2 as the adapter sees it                *)

NoResponse == [ret |-> 0, got_packet |-> 0, data |-> <<>>, pts |-> 0, dts |-> 0,
               key |-> FALSE, queued |-> 0]

DeviceError(q) == [NoResponse EXCEPT !.ret = -1, !.queued = q]

\* the device's packets: an access unit with its timestamps and the
\* key-frame flag the device gives it (AV_PKT_FLAG_KEY in av_pkt.flags)
EmittedPackets(q) ==
    { [ret |-> 0, got_packet |-> 1, data |-> d, pts |-> t[1], dts |-> t[2],
       key |-> k, queued |-> q] :
        d \in DevicePackets, t \in DeviceTimestamps, k \in BOOLEAN }

\* answers to a submitted frame when the device holds q frames
EncodeResponses(q) ==
    {DeviceError(q)}
    \cup (IF q < MaxBuffered
          THEN { [NoResponse EXCEPT !.queued = q + 1],
                 [NoResponse EXCEPT !.queued = q + 1, !.got_packet = 1] }
          ELSE {})
    \cup EmittedPackets(q)

\* answers to empty (NULL) input: one buffered packet per call until none remain
FlushResponses(q) ==
    {DeviceError(q)}
    \cup (IF q > 0 THEN EmittedPackets(q - 1) ELSE {[NoResponse EXCEPT !.queued = 0]})

----------------------------------------------------------------------------
(* The session: struct nvenc_encoder                                       *)

NullFrame == [alloc |-> FALSE, pts |-> 0]

\* bzalloc(sizeof(*enc))
ZeroedEncoder ==
    [nvenc |-> FALSE, context |-> NullContext,
     dst_picture |-> NullPicture, vframe |-> NullFrame,
     buffer |-> <<>>,
     header |-> NullPtr, header_size |-> 0,
     sei |-> NullPtr, sei_size |-> 0,
     height |-> 0, first_packet |-> FALSE, initialized |-> FALSE]

NoPacket == [pts |-> 0, dts |-> 0, data |-> <<>>, size |-> 0,
             type |-> "OBS_ENCODER_AUDIO", keyframe |-> FALSE]

\* a char pointer: null, or a string
NullStr == [null |-> TRUE, str |-> ""]

Str(s) == [null |-> FALSE, str |-> s]

\* obs_data_t settings of the DaCast service as obs_data_get_string and
\* obs_data_get_bool read them: an absent string reads as ""
NoServiceSettings ==
    [api_key |-> "", server |-> "", stream_key |-> "", username |-> "",
     password |-> "", use_auth |-> FALSE, channel |-> ""]

\* struct rtmp_dacast after bzalloc
ZeroedPlugin ==
    [api_key |-> NullStr, server |-> NullStr, stream_key |-> NullStr,
     username |-> NullStr, password |-> NullStr, use_auth |-> FALSE]

\* no service exists; ret is the latest callback and what it returned
NoService ==
    [plugin |-> ZeroedPlugin, settings |-> NoServiceSettings,
     applied |-> NoServiceSettings,   \* the settings of the latest update
     ret |-> [op |-> "none", value |-> NullStr]]

\* fixup_bundle.sh has not started
NoShell ==
    [otool |-> [f \in {} |-> {}], TARGETS |-> {}, FOUNDLIBS |-> {},
     PFOUNDLIBS |-> {}, rounds |-> 0]

\* the callers' out-parameters before any call: the accessors' pointer and
\* size, and the format field of the struct video_scale_info
NoOut == [data |-> NullPtr, size |-> 0, format |-> "VIDEO_FORMAT_NONE"]

NoCall == [op |-> "none", on |-> "none", ok |-> FALSE, submitted |-> FALSE,
           resp |-> NoResponse]

\* what the environment grants a session: the codec is registered, and the
\* allocations and the device open succeed
Environments ==
    [codec : BOOLEAN, context : BOOLEAN, open : BOOLEAN, vframe : BOOLEAN,
     picture : BOOLEAN]

NoHistory ==
    [env |-> [codec |-> FALSE, context |-> FALSE, open |-> FALSE,
              vframe |-> FALSE, picture |-> FALSE],
     settings |-> DefaultSettings,   \* what nvenc_create was called with
     frame |-> NoFrame,   \* the frame copy_data staged last
     voi |-> CHOOSE v \in VideoInfos : TRUE,
     encoder |-> CHOOSE x \in Encoders : TRUE,
     updates |-> 0,       \* returns of nvenc_update
     opens |-> 0,         \* calls of avcodec_open2
     extracts |-> 0,      \* calls of obs_extract_avc_headers
     calls |-> 0,         \* returns of nvenc_encode
     delivered |-> 0,     \* those that handed the caller a packet
     emitted |-> 0,       \* non-empty packets the device returned to nvenc_encode
     first_emitted |-> <<>>,  \* the first of them
     drains |-> 0,        \* iterations of the drain loop
     last_flush |-> "none",   \* the device's latest answer to NULL input
     drain_from |-> 0,    \* frames the device held when the drain loop began
     unfreed |-> 0]       \* device packets handed out and not yet freed

\* variant: initialized is set as soon as the device has opened
nvenc_init_codec_EarlyInit(e, env) ==
    IF ~env.open
    THEN [enc |-> e, ok |-> FALSE, opens |-> 1]
    ELSE LET e1 == [e EXCEPT !.context.state = "open", !.initialized = TRUE] IN
         IF ~env.vframe
         THEN [enc |-> e1, ok |-> FALSE, opens |-> 1]
         ELSE LET e2 == [e1 EXCEPT !.vframe = [alloc |-> TRUE, pts |-> 0]] IN
              IF ~env.picture
              THEN [enc |-> e2, ok |-> FALSE, opens |-> 1]
              ELSE [enc |-> [e2 EXCEPT !.dst_picture = AllocatedPicture],
                    ok |-> TRUE, opens |-> 1]

\* variant: the result of the picture allocation is not tested
nvenc_init_codec_IgnoresPicture(e, env) ==
    IF ~env.open
    THEN [enc |-> e, ok |-> FALSE, opens |-> 1]
    ELSE LET e1 == [e EXCEPT !.context.state = "open"] IN
         IF ~env.vframe
         THEN [enc |-> e1, ok |-> FALSE, opens |-> 1]
         ELSE LET e2 == [e1 EXCEPT !.vframe = [alloc |-> TRUE, pts |-> 0]] IN
              [enc |-> [e2 EXCEPT !.dst_picture = IF env.picture
                                                   THEN AllocatedPicture
                                                   ELSE NullPicture,
                                  !.initialized = TRUE],
               ok |-> TRUE, opens |-> 1]

\* nvenc_init_codec: the session after it, its result, and the calls of
\* avcodec_open2 it made
nvenc_init_codec(e, env) ==
    IF ~env.open
    THEN [enc |-> e, ok |-> FALSE, opens |-> 1]
    ELSE LET e1 == [e EXCEPT !.context.state = "open"] IN
         IF ~env.vframe
         THEN [enc |-> e1, ok |-> FALSE, opens |-> 1]
         ELSE LET e2 == [e1 EXCEPT !.vframe = [alloc |-> TRUE, pts |-> 0]] IN
              IF ~env.picture
              THEN [enc |-> e2, ok |-> FALSE, opens |-> 1]
              ELSE [enc |-> [e2 EXCEPT !.dst_picture = AllocatedPicture,
                                       !.initialized = TRUE],
                    ok |-> TRUE, opens |-> 1]

\* variant: the settings are translated and the codec is not opened
nvenc_update_NoOpen(e, settings, voi, encoder, env) ==
    LET ctx == UpdateContext(e.context, settings, voi, encoder)
    IN  [enc |-> [e EXCEPT !.context = ctx, !.height = ctx.height],
         ok |-> TRUE, opens |-> 0]

\* nvenc_update: translate the settings, then open the codec
nvenc_update(e, settings, voi, encoder, env) ==
    LET ctx == UpdateContext(e.context, settings, voi, encoder)
    IN  nvenc_init_codec([e EXCEPT !.context = ctx, !.height = ctx.height], env)

\* nvenc_create up to its return or its jump to fail
CreateSession(settings, voi, encoder, env) ==
    LET e0 == [ZeroedEncoder EXCEPT !.nvenc = env.codec, !.first_packet = TRUE] IN
    IF ~e0.nvenc
    THEN [enc |-> e0, ok |-> FALSE, updates |-> 0, opens |-> 0]
    ELSE IF ~env.context
    THEN [enc |-> e0, ok |-> FALSE, updates |-> 0, opens |-> 0]
    ELSE LET r == nvenc_update([e0 EXCEPT !.context = AllocatedContext],
                               settings, voi, encoder, env)
         IN  [enc |-> r.enc, ok |-> r.ok, updates |-> 1, opens |-> r.opens]

\* variant: the releases start without draining
DestroyEntry_NoDrain(e) == "release"

\* where nvenc_destroy starts: the drain loop runs only if initialized
DestroyEntry(e) == IF e.initialized THEN "drain" ELSE "release"

Init ==
    /\ pc = "start"
    /\ handle = "none"
    /\ enc = ZeroedEncoder
    /\ dev = [queued |-> 0]
    /\ packet = NoPacket
    /\ received_packet \in BOOLEAN
    /\ out = NoOut
    /\ last = NoCall
    /\ hist = NoHistory
    /\ ui = NoUi
    /\ svc = NoService
    /\ sh = NoShell

nvenc_create ==
    /\ pc = "start"
    /\ \E settings \in SessionSettings, voi \in VideoInfos,
          encoder \in Encoders, env \in Environments :
         LET r == CreateSession(settings, voi, encoder, env) IN
         /\ enc' = r.enc
         /\ pc' = IF r.ok THEN "idle" ELSE DestroyEntry(r.enc)
         /\ handle' = IF r.ok THEN "enc" ELSE "none"
         /\ last' = [NoCall EXCEPT !.op = "create", !.ok = r.ok]
         /\ hist' = [hist EXCEPT
                       !.env = env,
                       !.updates = r.updates,
                       !.opens = r.opens,
                       !.settings = settings,
                       !.voi = voi,
                       !.encoder = encoder,
                       !.drain_from = dev.queued]
    /\ UNCHANGED <<svc, sh, ui, dev, packet, received_packet, out>>

----------------------------------------------------------------------------
(* nvenc_encode                                                            *)

\* variant: a result of 0 taken for a failure
DeviceFailed_OffByOne(ret) == ret <= 0

\* the device call failed
DeviceFailed(ret) == ret < 0

\* variant: without the test of av_pkt.size
GotOutput_NoSizeCheck(got_packet, size) == got_packet # 0

\* the device handed back a packet to deliver
GotOutput(got_packet, size) == got_packet # 0 /\ size # 0

\* the first packet: obs_extract_avc_headers fills header and sei, and the
\* remainder goes into the accumulation buffer
StoreFirst(e, data) ==
    LET x == obs_extract_avc_headers(data) IN
    [e EXCEPT !.header = DaPtr(x.header),
              !.header_size = Len(x.header),
              !.sei = DaPtr(x.sei),
              !.sei_size = Len(x.sei),
              !.buffer = x.new_packet]

\* variant: first_packet is never cleared
StorePacket_KeepsFirst(e, data) ==
    IF e.first_packet
    THEN [enc |-> StoreFirst(e, data), extracts |-> 1]
    ELSE [enc |-> [e EXCEPT !.buffer = data], extracts |-> 0]

\* variant: later packets go through the splitter too
StorePacket_AlwaysSplit(e, data) ==
    IF e.first_packet
    THEN [enc |-> [StoreFirst(e, data) EXCEPT !.first_packet = FALSE], extracts |-> 1]
    ELSE [enc |-> [e EXCEPT !.buffer = obs_extract_avc_headers(data).new_packet],
          extracts |-> 0]

\* the session after the packet's bytes went into the accumulation buffer:
\* the first packet through obs_extract_avc_headers, later ones verbatim
StorePacket(e, data) ==
    IF e.first_packet
    THEN [enc |-> [StoreFirst(e, data) EXCEPT !.first_packet = FALSE], extracts |-> 1]
    ELSE [enc |-> [e EXCEPT !.buffer = data], extracts |-> 0]

\* variant: the packet is stamped with the time of the frame just submitted
FillPacket_FrameTime(e, resp) ==
    [pts |-> e.vframe.pts, dts |-> e.vframe.pts,
     data |-> e.buffer, size |-> Len(e.buffer),
     type |-> "OBS_ENCODER_VIDEO",
     keyframe |-> obs_avc_keyframe(e.buffer)]

\* variant: the key-frame flag of the device's packet is passed on
FillPacket_DeviceKeyFlag(e, resp) ==
    [pts |-> resp.pts, dts |-> resp.dts,
     data |-> e.buffer, size |-> Len(e.buffer),
     type |-> "OBS_ENCODER_VIDEO",
     keyframe |-> resp.key]

\* the packet written for the caller
FillPacket(e, resp) ==
    [pts |-> resp.pts, dts |-> resp.dts,
     data |-> e.buffer, size |-> Len(e.buffer),
     type |-> "OBS_ENCODER_VIDEO",
     keyframe |-> obs_avc_keyframe(e.buffer)]

\* variant: a call without output empties the accumulation buffer
EncodeCall_ClearsBuffer(e, frame, resp, pkt, received) ==
    LET staged == [e EXCEPT !.dst_picture = copy_data(e.dst_picture, frame, e.height),
                            !.vframe.pts = frame.pts]
    IN  IF DeviceFailed(resp.ret)
        THEN [enc |-> staged, packet |-> pkt, received_packet |-> received,
              ok |-> FALSE, extracts |-> 0]
        ELSE IF GotOutput(resp.got_packet, Len(resp.data))
        THEN LET st == StorePacket(staged, resp.data) IN
             [enc |-> st.enc, packet |-> FillPacket(st.enc, resp),
              received_packet |-> TRUE, ok |-> TRUE, extracts |-> st.extracts]
        ELSE [enc |-> [staged EXCEPT !.buffer = <<>>], packet |-> pkt,
              received_packet |-> FALSE, ok |-> TRUE, extracts |-> 0]

\* the whole call: session, caller's packet and flag, result
EncodeCall(e, frame, resp, pkt, received) ==
    LET staged == [e EXCEPT !.dst_picture = copy_data(e.dst_picture, frame, e.height),
                            !.vframe.pts = frame.pts]
    IN  IF DeviceFailed(resp.ret)
        THEN [enc |-> staged, packet |-> pkt, received_packet |-> received,
              ok |-> FALSE, extracts |-> 0]
        ELSE IF GotOutput(resp.got_packet, Len(resp.data))
        THEN LET st == StorePacket(staged, resp.data) IN
             [enc |-> st.enc, packet |-> FillPacket(st.enc, resp),
              received_packet |-> TRUE, ok |-> TRUE, extracts |-> st.extracts]
        ELSE [enc |-> staged, packet |-> pkt, received_packet |-> FALSE,
              ok |-> TRUE, extracts |-> 0]

\* a non-empty packet came back from the device
Emitted(resp) == resp.ret >= 0 /\ resp.got_packet = 1 /\ resp.data # <<>>

nvenc_encode ==
    /\ pc = "idle"
    /\ \E frame \in Frames, resp \in EncodeResponses(dev.queued) :
         LET r == EncodeCall(enc, frame, resp, packet, received_packet) IN
         /\ enc' = r.enc
         /\ packet' = r.packet
         /\ received_packet' = r.received_packet
         /\ dev' = [queued |-> resp.queued]
         /\ last' = [op |-> "encode", on |-> "opened", ok |-> r.ok,
                     submitted |-> TRUE, resp |-> resp]
         /\ hist' = [hist EXCEPT
                       !.frame = frame,
                       !.calls = Bump(@),
                       !.delivered = IF r.ok /\ r.received_packet
                                     THEN Bump(@) ELSE @,
                       !.extracts = Min(@ + r.extracts, 2),
                       !.emitted = IF Emitted(resp) THEN Bump(@) ELSE @,
                       !.first_emitted = IF Emitted(resp) /\ hist.emitted = 0
                                         THEN resp.data ELSE @]
    /\ UNCHANGED <<svc, sh, ui, pc, handle, out>>

\* nvenc_encode through a handle whose session nvenc_destroy has freed: the
\* reads of *enc are reads of freed memory
EncodeFreedOutcomes == {"crash", "device error", "accepted"}

nvenc_encode_freed ==
    /\ pc = "closed"
    /\ handle = "enc"
    /\ \E outcome \in EncodeFreedOutcomes :
         /\ pc' = IF outcome = "crash" THEN "crashed" ELSE pc
         /\ last' = [op |-> "encode", on |-> "closed",
                     ok |-> (outcome = "accepted"),
                     submitted |-> (outcome # "crash"),
                     resp |-> IF outcome = "device error"
                              THEN DeviceError(0) ELSE NoResponse]
    /\ UNCHANGED <<svc, sh, ui, handle, enc, dev, packet, received_packet, out, hist>>

----------------------------------------------------------------------------
(* The accessors                                                           *)

\* variant: the header accessor hands out the SEI buffer
ExtraData_ReturnsSei(e) == [data |-> e.sei, size |-> e.sei_size, ok |-> TRUE]

\* nvenc_extra_data: *extra_data, *size and the result
ExtraData(e) == [data |-> e.header, size |-> e.header_size, ok |-> TRUE]

\* nvenc_sei_data: *extra_data, *size and the result
SeiData(e) == [data |-> e.sei, size |-> e.sei_size, ok |-> TRUE]

nvenc_extra_data ==
    /\ pc = "idle"
    /\ LET r == ExtraData(enc) IN
         /\ out' = [out EXCEPT !.data = r.data, !.size = r.size]
         /\ last' = [NoCall EXCEPT !.op = "extra_data", !.on = "opened", !.ok = r.ok]
    /\ UNCHANGED <<svc, sh, ui, pc, handle, enc, dev, packet, received_packet, hist>>

nvenc_sei_data ==
    /\ pc = "idle"
    /\ LET r == SeiData(enc) IN
         /\ out' = [out EXCEPT !.data = r.data, !.size = r.size]
         /\ last' = [NoCall EXCEPT !.op = "sei_data", !.on = "opened", !.ok = r.ok]
    /\ UNCHANGED <<svc, sh, ui, pc, handle, enc, dev, packet, received_packet, hist>>

----------------------------------------------------------------------------
(* nvenc_destroy                                                           *)

\* the call: enter the drain loop if the session is initialized
nvenc_destroy ==
    /\ pc = "idle"
    /\ pc' = DestroyEntry(enc)
    /\ last' = [NoCall EXCEPT !.op = "destroy", !.on = "opened", !.ok = TRUE]
    /\ hist' = [hist EXCEPT !.drain_from = dev.queued]
    /\ UNCHANGED <<svc, sh, ui, handle, enc, dev, packet, received_packet, out>>

\* variant: the loop leaves only on an error
DrainIteration_NeverStops(resp) ==
    [pc |-> IF resp.ret < 0 THEN "release" ELSE "drain",
     freed |-> IF resp.ret >= 0 /\ resp.got_packet # 0 THEN 1 ELSE 0]

\* one iteration of the drain loop on the device's answer to NULL input:
\* where the loop goes and the packets it frees
DrainIteration(resp) ==
    IF resp.ret < 0
    THEN [pc |-> "release", freed |-> 0]
    ELSE [pc |-> IF resp.got_packet # 0 THEN "drain" ELSE "release",
          freed |-> IF resp.got_packet # 0 THEN 1 ELSE 0]

DrainStep ==
    /\ pc = "drain"
    /\ \E resp \in FlushResponses(dev.queued) :
         LET r == DrainIteration(resp) IN
         /\ pc' = r.pc
         /\ dev' = [queued |-> resp.queued]
         /\ hist' = [hist EXCEPT
                       !.drains = BumpDrains(@),
                       !.last_flush = IF resp.ret < 0 THEN "error"
                                      ELSE IF resp.got_packet # 0 THEN "packet"
                                      ELSE "no more",
                       !.unfreed = Min(@ + (IF resp.ret >= 0 THEN resp.got_packet ELSE 0)
                                         - r.freed, 2)]
    /\ UNCHANGED <<svc, sh, ui, handle, enc, packet, received_packet, out, last>>

\* the releases after the loop: avcodec_close, av_frame_free, avpicture_free,
\* da_free, bfree(header), bfree(sei); bfree(enc) follows
ReleasedEncoder(e) ==
    [e EXCEPT !.context.state = IF @ = "NULL" THEN "NULL" ELSE "closed",
              !.vframe = NullFrame,
              !.dst_picture = NullPicture,
              !.buffer = <<>>,
              !.header = NullPtr,
              !.sei = NullPtr]

Release ==
    /\ pc = "release"
    /\ enc' = ReleasedEncoder(enc)
    /\ dev' = [queued |-> 0]
    /\ pc' = "closed"
    /\ UNCHANGED <<svc, sh, ui, handle, packet, received_packet, out, last, hist>>

----------------------------------------------------------------------------

Next ==
    \/ nvenc_create
    \/ nvenc_encode
    \/ nvenc_encode_freed
    \/ nvenc_extra_data
    \/ nvenc_sei_data
    \/ nvenc_destroy
    \/ DrainStep
    \/ Release

Spec == Init /\ [][Next]_vars

\* the thread inside nvenc_destroy keeps running until the call returns
FairSpec == Spec /\ WF_vars(DrainStep) /\ WF_vars(Release)

----------------------------------------------------------------------------
(* Properties                                                              *)

\* the last call was nvenc_encode on the open session
EncodeReturned == last.op = "encode" /\ last.on = "opened"

\* C1: over the nvenc_encode calls of a session, obs_extract_avc_headers runs
\* exactly once, in the first call in which the device returns a non-empty
\* packet; calls that return no packet, an empty packet or an error leave
\* first_packet set.
C1_ExtractOnce ==
    /\ hist.extracts = (IF hist.emitted > 0 THEN 1 ELSE 0)
    /\ pc = "idle" => (enc.first_packet <=> hist.emitted = 0)

\* a session that has returned two packets with a single extraction, the
\* device still holding frames from calls that returned none
C1_Witness ==
    /\ pc = "idle"
    /\ hist.emitted = 2
    /\ hist.extracts = 1
    /\ ~enc.first_packet
    /\ dev.queued = MaxBuffered

\* C2: once the first producing encode has set header, header_size, sei and
\* sei_size, no step of the session changes them until the releases at the
\* end of nvenc_destroy.
C2_HeadersImmutable ==
    [][ (hist.extracts > 0 /\ pc # "release") =>
            /\ enc'.header = enc.header
            /\ enc'.header_size = enc.header_size
            /\ enc'.sei = enc.sei
            /\ enc'.sei_size = enc.sei_size ]_vars

\* header and SEI still in place after a second packet and a failed call
C2_Witness ==
    /\ hist.emitted = 2
    /\ enc.header_size > 0
    /\ enc.sei_size > 0
    /\ EncodeReturned
    /\ ~last.ok

\* what the session extracted from the first packet the device emitted
FirstHeaders == obs_extract_avc_headers(hist.first_emitted)

\* C3: nvenc_extra_data and nvenc_sei_data always succeed; before the first
\* producing encode they report a null pointer and size 0, after it the
\* header and the SEI extracted from the first packet.
C3_Accessors ==
    /\ last.op = "extra_data" =>
         /\ last.ok
         /\ out.data = (IF hist.emitted = 0 THEN NullPtr ELSE DaPtr(FirstHeaders.header))
         /\ out.size = (IF hist.emitted = 0 THEN 0 ELSE Len(FirstHeaders.header))
    /\ last.op = "sei_data" =>
         /\ last.ok
         /\ out.data = (IF hist.emitted = 0 THEN NullPtr ELSE DaPtr(FirstHeaders.sei))
         /\ out.size = (IF hist.emitted = 0 THEN 0 ELSE Len(FirstHeaders.sei))

\* nvenc_extra_data reporting the parameter sets of the first packet
C3_Witness ==
    /\ last.op = "extra_data"
    /\ hist.emitted > 0
    /\ out.data = Ptr(<<"SPS", "PPS">>)
    /\ out.size = 2

\* C4: a producing encode after the first returns the device's packet
\* verbatim, bytes and length; the first returns the remainder the splitter
\* left.
C4_PayloadVerbatim ==
    (EncodeReturned /\ Emitted(last.resp)) =>
        IF hist.emitted = 1
        THEN /\ packet.data = FirstHeaders.new_packet
             /\ packet.size = Len(FirstHeaders.new_packet)
        ELSE /\ packet.data = last.resp.data
             /\ packet.size = Len(last.resp.data)

\* a later packet that carries a SEI NAL unit, delivered with it
C4_Witness ==
    /\ EncodeReturned
    /\ hist.emitted = 2
    /\ last.resp.data = <<"SEI", "SLICE">>
    /\ packet.data = <<"SEI", "SLICE">>
    /\ received_packet

\* C5: nvenc_encode fails exactly when the device call returns a negative
\* result; it succeeds with received_packet false when the device returns no
\* packet or an empty one, and with received_packet true when the device
\* returns a non-empty packet.
C5_EncodeResult ==
    EncodeReturned =>
        /\ last.ok <=> last.resp.ret >= 0
        /\ (last.resp.ret >= 0 /\ ~Emitted(last.resp)) => ~received_packet
        /\ Emitted(last.resp) => received_packet

\* the device returned a packet of size 0: success, nothing received
C5_Witness ==
    /\ EncodeReturned
    /\ last.ok
    /\ last.resp.got_packet = 1
    /\ last.resp.data = <<>>
    /\ ~received_packet

\* C6: an encode call on a session that is not opened (never opened, or
\* closed) fails without submitting anything to the device.
C6_EncodeRejectedUnlessOpened ==
    (last.op = "encode" /\ last.on # "opened") =>
        /\ ~last.ok
        /\ ~last.submitted
        /\ pc # "crashed"

\* what nvenc_destroy releases has been released
AllReleased(e) ==
    /\ e.context.state \in {"NULL", "closed"}
    /\ ~e.vframe.alloc
    /\ ~e.dst_picture.alloc
    /\ e.buffer = <<>>
    /\ e.header.null
    /\ e.sei.null

\* nothing of an opened session has been released
NothingReleased(e) ==
    /\ e.context.state = "open"
    /\ e.vframe.alloc
    /\ e.dst_picture.alloc

\* a step inside nvenc_destroy writes nothing the caller reads
DestroyKeepsCallerData ==
    pc \in {"drain", "release"} =>
        (packet' = packet /\ received_packet' = received_packet /\ out' = out)

\* C7: nvenc_destroy of an opened session submits NULL input to the device
\* until the device reports no more output or an error, frees every packet
\* it gets back, and releases the context, the frame, the picture and the
\* buffers only after that; no drained packet reaches the caller's packet.
C7_DrainBeforeRelease ==
    /\ [](pc = "drain" => NothingReleased(enc))
    /\ []((pc \in {"release", "closed"} /\ enc.initialized) =>
              /\ hist.drains > 0
              /\ hist.last_flush \in {"no more", "error"}
              /\ (pc = "release" /\ hist.last_flush = "no more" => dev.queued = 0))
    /\ [](pc = "closed" => AllReleased(enc))
    /\ [](hist.unfreed = 0)
    /\ [][DestroyKeepsCallerData]_vars

\* a closed session whose device held frames that the loop drained, and
\* whose caller never saw a packet
C7_Witness ==
    /\ pc = "closed"
    /\ enc.initialized
    /\ hist.drain_from = MaxBuffered
    /\ hist.drains = MaxBuffered + 1
    /\ hist.last_flush = "no more"
    /\ packet = NoPacket

\* C8: the drain loop ends: with one buffered packet per NULL-input call
\* until none remain, it runs at most once more than the device held frames,
\* it leaves at the first error, and the session reaches Closed.
C8_DrainTerminates ==
    /\ [](hist.drains <= hist.drain_from + 1)
    /\ [](hist.last_flush \in {"error", "no more"} => pc # "drain")
    /\ (pc \in {"drain", "release"}) ~> (pc = "closed")

\* the loop ran as often as it can: once per held frame and once more
C8_Witness ==
    /\ pc = "closed"
    /\ hist.drain_from > 0
    /\ hist.drains = hist.drain_from + 1

\* C9 as stated: once configure has returned, the device has not been opened
\* and the session is not Opened.
C9_UpdateDoesNotOpen ==
    hist.updates > 0 =>
        /\ hist.opens = 0
        /\ enc.context.state # "open"
        /\ ~enc.initialized

\* C9, amended: nvenc_update writes the device parameters and then opens the
\* device through nvenc_init_codec: each configure makes one avcodec_open2
\* call, a session in use has been configured once, is open and initialized
\* and carries the translated parameters, and a failed configure leaves
\* initialized false.
C9_UpdateOpens ==
    /\ hist.opens = hist.updates
    /\ pc = "idle" =>
         /\ hist.updates = 1
         /\ enc.initialized
         /\ enc.context =
              [UpdateContext(AllocatedContext, hist.settings, hist.voi, hist.encoder)
                 EXCEPT !.state = "open"]
         /\ enc.height = hist.encoder.height
    /\ (last.op = "create" /\ ~last.ok) => ~enc.initialized

\* a session in use, configured with the lossless settings and open
C9_Witness ==
    /\ pc = "idle"
    /\ hist.updates = 1
    /\ hist.opens = 1
    /\ enc.context.state = "open"
    /\ enc.context.priv.preset = "losslesshp"
    /\ enc.context.gop_size = 60

\* everything nvenc_create needs was granted
AllGranted(env) ==
    env.codec /\ env.context /\ env.open /\ env.vframe /\ env.picture

\* C10: nvenc_create returns a session exactly when the codec was found, the
\* context allocated and configure/open succeeded; on every failure path it
\* goes through nvenc_destroy, which skips the drain loop because initialized
\* is false, and releases what had been acquired.
C10_CreateFailure ==
    /\ last.op = "create" => (last.ok <=> AllGranted(hist.env))
    /\ handle = "enc" => AllGranted(hist.env)
    /\ (last.op = "create" /\ ~last.ok) =>
         /\ handle = "none"
         /\ pc \in {"release", "closed"}
         /\ hist.drains = 0
         /\ ~enc.initialized
         /\ pc = "closed" => AllReleased(enc)
    /\ (last.op = "create" /\ last.ok) => (handle = "enc" /\ NothingReleased(enc))

\* the picture allocation failed after the device had opened: no session,
\* the device closed again, no drain
C10_Witness ==
    /\ last.op = "create"
    /\ ~last.ok
    /\ pc = "closed"
    /\ hist.env.open
    /\ hist.env.vframe
    /\ ~hist.env.picture
    /\ enc.context.state = "closed"
    /\ hist.drains = 0

----------------------------------------------------------------------------
(* Opening the codec                                                       *)

\* C11: nvenc_init_codec fails when the device cannot be opened, when the
\* frame holder cannot be allocated and when the picture cannot be allocated,
\* each step being tried only after the one before it succeeded; initialized
\* is true exactly when all three succeeded and false after any failed step.
C11_InitCodec ==
    hist.opens = 1 =>
      /\ enc.initialized <=>
           (hist.env.open /\ hist.env.vframe /\ hist.env.picture)
      /\ last.op = "create" => (last.ok <=> enc.initialized)
      /\ enc.context.state = "open" => hist.env.open
      /\ enc.vframe.alloc => (hist.env.open /\ hist.env.vframe)
      /\ enc.dst_picture # NullPicture => enc.initialized

\* the device opened and the frame holder could not be allocated: the open
\* context is kept for nvenc_destroy, nothing else was acquired, initialized
\* is false
C11_Witness ==
    /\ hist.opens = 1
    /\ last.op = "create"
    /\ ~last.ok
    /\ pc = "release"
    /\ hist.env.open
    /\ ~hist.env.vframe
    /\ enc.context.state = "open"
    /\ ~enc.vframe.alloc
    /\ ~enc.initialized

----------------------------------------------------------------------------
(* The translator on its own: nvenc_update over the settings a caller can  *)
(* hand in                                                                 *)

\* rate_control: the four values of the property list in both cases the
\* comparison folds, and a value outside the list
RateControls ==
    {"CBR", "ABR", "VBR", "vbr", "CQP", "cqp", "lossless", "Lossless"}

\* presets of the property list, and two of them in upper case
Presets == {"default", "hq", "hp", "HP", "llhp", "LLHP"}

\* the ends of the ranges the properties give bitrate, cqp and keyint_sec
UpdateSettings ==
    { [DefaultSettings EXCEPT !.rate_control = rc, !.bitrate = b, !.cqp = q,
                              !.keyint_sec = k, !.preset = p, !.cbr = c] :
        rc \in RateControls, b \in {50, 300000}, q \in {0, 23, 50},
        k \in {0, 2, 10}, p \in Presets, c \in BOOLEAN }

\* frame rates: 30/1 and the NTSC rate 30000/1001
UpdateVideoInfos ==
    { [v EXCEPT !.fps_num = f[1], !.fps_den = f[2]] :
        v \in VideoInfos, f \in {<<30, 1>>, <<30000, 1001>>} }

\* nvenc_create has found the codec and allocated the context; the
\* allocations that follow the open are granted here
UpdateEnvironments ==
    { env \in Environments :
        env.codec /\ env.context /\ env.vframe /\ env.picture }

\* the session as nvenc_create hands it to nvenc_update
UpdateInit ==
    /\ pc = "configure"
    /\ handle = "none"
    /\ enc = [ZeroedEncoder EXCEPT !.nvenc = TRUE, !.first_packet = TRUE,
                                   !.context = AllocatedContext]
    /\ dev = [queued |-> 0]
    /\ packet = NoPacket
    /\ received_packet = FALSE
    /\ out = NoOut
    /\ last = NoCall
    /\ ui = NoUi
    /\ svc = NoService
    /\ sh = NoShell
    /\ \E settings \in UpdateSettings, voi \in UpdateVideoInfos,
          encoder \in Encoders :
         hist = [NoHistory EXCEPT !.settings = settings, !.voi = voi,
                                  !.encoder = encoder]

\* the call of nvenc_update
UpdateCall ==
    /\ pc = "configure"
    /\ \E env \in UpdateEnvironments :
         LET r == nvenc_update(enc, hist.settings, hist.voi, hist.encoder, env)
         IN  /\ enc' = r.enc
             /\ last' = [NoCall EXCEPT !.op = "update", !.ok = r.ok]
             /\ hist' = [hist EXCEPT !.env = env, !.updates = 1,
                                     !.opens = r.opens]
    /\ pc' = "configured"
    /\ UNCHANGED <<svc, sh, ui, handle, dev, packet, received_packet, out>>

UpdateSpec == UpdateInit /\ [][UpdateCall]_vars

\* the names the comparisons accept for each mode
CqpNames == {"cqp", "CQP"}

LosslessNames == {"lossless", "Lossless"}

VbrNames == {"vbr", "VBR"}

HighPerformanceNames == {"hp", "HP", "llhp", "LLHP"}

\* the mode a settings object asks for, the deprecated cbr flag not set
RequestedMode(settings) ==
    IF settings.cbr THEN "deprecated cbr"
    ELSE IF settings.rate_control \in CqpNames THEN "cqp"
    ELSE IF settings.rate_control \in LosslessNames THEN "lossless"
    ELSE IF settings.rate_control \in VbrNames THEN "vbr"
    ELSE "cbr"

\* C12: for a rate_control value that is none of cqp, lossless and vbr the
\* CBR flag is set and the minimum and the maximum rate both equal
\* bitrate * 1000, the value of bit_rate; for variable bitrate bit_rate is
\* bitrate * 1000, the CBR flag is false and the minimum and maximum rate
\* keep the values of the fresh context.
C12_CbrAndVbr ==
    pc = "configured" =>
      /\ hist.settings.rate_control \notin
            (CqpNames \cup LosslessNames \cup VbrNames) =>
           /\ enc.context.priv.cbr
           /\ enc.context.rc_min_rate = hist.settings.bitrate * 1000
           /\ enc.context.rc_max_rate = hist.settings.bitrate * 1000
           /\ enc.context.bit_rate = hist.settings.bitrate * 1000
      /\ RequestedMode(hist.settings) = "vbr" =>
           /\ enc.context.bit_rate = hist.settings.bitrate * 1000
           /\ ~enc.context.priv.cbr
           /\ enc.context.rc_min_rate = AllocatedContext.rc_min_rate
           /\ enc.context.rc_max_rate = AllocatedContext.rc_max_rate

\* a rate_control value outside the list at the highest bitrate: true CBR
C12_Witness ==
    /\ pc = "configured"
    /\ hist.settings.rate_control = "ABR"
    /\ ~hist.settings.cbr
    /\ hist.settings.bitrate = 300000
    /\ enc.context.priv.cbr
    /\ enc.context.rc_min_rate = 300000000
    /\ enc.context.rc_max_rate = 300000000
    /\ enc.context.bit_rate = 300000000

\* C13: in constant-quantizer mode (rate_control is cqp in either case, the
\* deprecated cbr flag not set), whatever bitrate and quantizer are requested,
\* bit_rate and rc_buffer_size are 0 and global_quality is the requested
\* quantizer.
C13_Cqp ==
    (pc = "configured" /\ RequestedMode(hist.settings) = "cqp") =>
      /\ enc.context.bit_rate = 0
      /\ enc.context.rc_buffer_size = 0
      /\ enc.context.global_quality = hist.settings.cqp

\* the highest bitrate and the highest quantizer requested together
C13_Witness ==
    /\ pc = "configured"
    /\ hist.settings.rate_control = "CQP"
    /\ ~hist.settings.cbr
    /\ hist.settings.bitrate = 300000
    /\ hist.settings.cqp = 50
    /\ enc.context.bit_rate = 0
    /\ enc.context.rc_buffer_size = 0
    /\ enc.context.global_quality = 50

\* C14: in lossless mode, whatever bitrate, quantizer and preset are
\* requested, the device bitrate is 0, the device quantizer is 0, and the
\* preset is losslesshp exactly when the requested preset is hp or llhp in
\* either case and lossless otherwise; the requested preset is not in effect.
C14_Lossless ==
    (pc = "configured" /\ RequestedMode(hist.settings) = "lossless") =>
      /\ enc.context.bit_rate = 0
      /\ enc.context.rc_buffer_size = 0
      /\ enc.context.global_quality = 0
      /\ enc.context.priv.preset \in {"losslesshp", "lossless"}
      /\ enc.context.priv.preset = "losslesshp" <=>
           hist.settings.preset \in HighPerformanceNames
      /\ enc.context.priv.preset # hist.settings.preset

\* an upper-case high-performance preset with a nonzero quantizer requested
C14_Witness ==
    /\ pc = "configured"
    /\ hist.settings.rate_control = "Lossless"
    /\ ~hist.settings.cbr
    /\ hist.settings.preset = "LLHP"
    /\ hist.settings.cqp = 50
    /\ hist.settings.bitrate = 300000
    /\ enc.context.priv.preset = "losslesshp"
    /\ enc.context.bit_rate = 0
    /\ enc.context.global_quality = 0

\* C15: gop_size is 250 when keyint_sec is 0 and otherwise
\* keyint_sec * fps_num / fps_den, the product divided with truncation, in
\* every rate-control mode; keyint_sec = 2 at 30/1 gives 60.
C15_GopSize ==
    pc = "configured" =>
      /\ hist.settings.keyint_sec = 0 => enc.context.gop_size = 250
      /\ hist.settings.keyint_sec # 0 =>
           enc.context.gop_size =
             (hist.settings.keyint_sec * hist.voi.fps_num) \div hist.voi.fps_den
      /\ (/\ hist.settings.keyint_sec = 2
          /\ hist.voi.fps_num = 30
          /\ hist.voi.fps_den = 1) => enc.context.gop_size = 60

\* two seconds at 30000/1001 in constant-quantizer mode: 59 frames, the
\* quotient 59.94 truncated
C15_Witness ==
    /\ pc = "configured"
    /\ RequestedMode(hist.settings) = "cqp"
    /\ hist.settings.keyint_sec = 2
    /\ hist.voi.fps_num = 30000
    /\ hist.voi.fps_den = 1001
    /\ enc.context.gop_size = 59

----------------------------------------------------------------------------
(* The frame stager on its own: copy_data over pictures and frames of      *)
(* differing row sizes                                                     *)

\* heights of the session: an even and an odd one
CopyHeights == {PicHeight, PicHeight + 1}

\* rows avpicture_alloc gives a plane of a 4:2:0 picture: the chroma planes
\* have half the rows, rounded up
AllocatedRows(plane, height) ==
    IF plane = 0 THEN height ELSE (height + 1) \div 2

\* the staging picture of a session of that height, zero-filled
CopyPictures(height) ==
    { [alloc |-> TRUE, linesize |-> [p \in Planes |-> stride],
       data |-> [p \in Planes |->
                   [i \in 1 .. (AllocatedRows(p, height) * stride) |-> 0]]] :
        stride \in {PicStride, PicStride + 1} }

\* the bytes of a caller's plane: every byte differs from the others of the
\* frame and from the picture's fill
SourceBytes(plane, rows, stride) ==
    [i \in 1 .. (rows * stride) |-> 16 * (plane + 1) + i]

\* frames of that height whose rows are shorter than, as long as or longer
\* than the picture's, with any of the planes absent
CopyFrames(height) ==
    { [data |-> [p \in Planes |->
                   IF p \in present
                   THEN Ptr(SourceBytes(p, AllocatedRows(p, height), stride))
                   ELSE NullPtr],
       linesize |-> [p \in Planes |-> stride], pts |-> 0] :
        stride \in {PicStride - 1, PicStride, PicStride + 1},
        present \in SUBSET Planes }

\* an open session and a frame about to be staged
CopyInit ==
    /\ pc = "stage"
    /\ handle = "enc"
    /\ dev = [queued |-> 0]
    /\ packet = NoPacket
    /\ received_packet = FALSE
    /\ out = NoOut
    /\ last = NoCall
    /\ ui = NoUi
    /\ svc = NoService
    /\ sh = NoShell
    /\ \E height \in CopyHeights :
         \E pic \in CopyPictures(height), frame \in CopyFrames(height) :
           /\ enc = [ZeroedEncoder EXCEPT
                       !.nvenc = TRUE, !.first_packet = TRUE,
                       !.context = [AllocatedContext EXCEPT !.state = "open",
                                                            !.height = height],
                       !.vframe = [alloc |-> TRUE, pts |-> 0],
                       !.dst_picture = pic, !.height = height,
                       !.initialized = TRUE]
           /\ hist = [NoHistory EXCEPT !.frame = frame]

\* copy_data(&enc->dst_picture, frame, enc->height), once and once more with
\* the same frame
StageFrame ==
    /\ pc \in {"stage", "staged"}
    /\ enc' = [enc EXCEPT !.dst_picture = copy_data(@, hist.frame, enc.height)]
    /\ pc' = IF pc = "stage" THEN "staged" ELSE "restaged"
    /\ UNCHANGED <<svc, sh, ui, handle, dev, packet, received_packet, out, last, hist>>

CopySpec == CopyInit /\ [][StageFrame]_vars

\* rows of a plane that copy_data copies
CopiedRows(plane, height) == IF plane = 0 THEN height ELSE height \div 2

\* the picture `after` is the picture `before` with, for every plane the frame
\* has, the first min(source row size, picture row size) bytes of each of the
\* first CopiedRows rows taken from the same row of the frame
StagedFrom(before, after, frame, height) ==
    /\ after.linesize = before.linesize
    /\ \A plane \in Planes :
         LET src  == frame.data[plane]
             srcStride == frame.linesize[plane]
             dstStride == before.linesize[plane]
             n    == IF srcStride < dstStride THEN srcStride ELSE dstStride
         IN  /\ Len(after.data[plane]) = Len(before.data[plane])
             /\ src.null => after.data[plane] = before.data[plane]
             /\ ~src.null =>
                  \A i \in 1 .. Len(before.data[plane]) :
                    LET y == (i - 1) \div dstStride
                        x == (i - 1) % dstStride
                    IN  after.data[plane][i] =
                          IF y < CopiedRows(plane, height) /\ x < n
                          THEN src.bytes[y * srcStride + x + 1]
                          ELSE before.data[plane][i]

\* a staging step writes the picture as C16 says
StagingStep ==
    pc \in {"stage", "staged"} =>
        StagedFrom(enc.dst_picture, enc'.dst_picture, hist.frame, enc.height)

\* C16: for every plane the frame has, copy_data copies min(source row size,
\* picture row size) bytes of each of the first planeHeight rows (height for
\* plane 0, height/2 for the others), row y from offset y * source row size
\* to offset y * picture row size; planes the frame lacks are skipped, and
\* the bytes of a picture row past the copied ones and the rows from
\* planeHeight on are left as they were.
C16_CopyData == [][StagingStep]_vars

\* a frame with longer rows and no second plane staged into a picture of odd
\* height: the second luma row starts with the first byte of the frame's
\* second row, the absent plane is still zero
C16_Witness ==
    /\ pc = "staged"
    /\ enc.height = PicHeight + 1
    /\ enc.dst_picture.linesize[0] = PicStride
    /\ hist.frame.linesize[0] = PicStride + 1
    /\ ~hist.frame.data[0].null
    /\ hist.frame.data[1].null
    /\ enc.dst_picture.data[0][PicStride + 1] =
         hist.frame.data[0].bytes[PicStride + 2]
    /\ \A i \in 1 .. Len(enc.dst_picture.data[1]) :
         enc.dst_picture.data[1][i] = 0
\* the frame's rows are as long as the picture's, in every plane
EqualStrides ==
    \A plane \in Planes :
        hist.frame.linesize[plane] = enc.dst_picture.linesize[plane]

\* read back after staging, the copied rows of every plane the frame has are
\* the frame's bytes
ReadBack ==
    (pc \in {"staged", "restaged"} /\ EqualStrides) =>
        \A plane \in Planes :
            ~hist.frame.data[plane].null =>
                \A i \in 1 .. (CopiedRows(plane, enc.height)
                                 * hist.frame.linesize[plane]) :
                    enc.dst_picture.data[plane][i] =
                        hist.frame.data[plane].bytes[i]

\* staging the frame a second time changes nothing
RestagingStep ==
    (pc = "staged" /\ EqualStrides) => enc'.dst_picture = enc.dst_picture

\* C17: with equal row sizes in every plane, the picture read back after
\* staging has the frame's bytes in all rows of the luma plane and in the
\* first height/2 rows of each chroma plane, and staging the same frame again
\* leaves the picture unchanged.
C17_RoundTrip == [](ReadBack) /\ [][RestagingStep]_vars

\* a whole frame staged twice into a picture of odd height: the luma plane
\* is the frame's, the chroma row past height/2 still holds the fill
C17_Witness ==
    /\ pc = "restaged"
    /\ EqualStrides
    /\ enc.height = PicHeight + 1
    /\ \A plane \in Planes : ~hist.frame.data[plane].null
    /\ enc.dst_picture.data[0] = hist.frame.data[0].bytes
    /\ enc.dst_picture.data[1][Len(enc.dst_picture.data[1])] = 0

----------------------------------------------------------------------------
(* The packets nvenc_encode delivers                                       *)

\* the payload holds an IDR NAL unit
HasIdr(data) == \E i \in 1 .. Len(data) : data[i] = "IDR"

\* C18: the keyframe flag of a delivered packet is computed from the payload
\* the packet carries (the splitter's remainder for the first packet, the
\* device's bytes for later ones) and is true exactly when that payload
\* holds an IDR NAL unit, whatever key-frame flag the device gave its packet.
C18_Keyframe ==
    (EncodeReturned /\ Emitted(last.resp)) =>
        /\ packet.data = enc.buffer
        /\ packet.keyframe <=> HasIdr(packet.data)

\* the first packet, which the device did not flag as a key frame: the
\* payload left after the split is the IDR slice, and the packet is flagged
C18_Witness ==
    /\ EncodeReturned
    /\ hist.emitted = 1
    /\ last.resp.data = <<"SPS", "PPS", "SEI", "IDR">>
    /\ ~last.resp.key
    /\ packet.data = <<"IDR">>
    /\ packet.keyframe
\* the last call was an nvenc_encode that handed the caller a packet
Delivered == EncodeReturned /\ last.ok /\ received_packet

\* a step writes the caller's packet only as an nvenc_encode call that
\* reports a packet, and adds at most one to the packets delivered
DeliveryStep ==
    /\ hist'.delivered <= hist.delivered + 1
    /\ hist'.delivered # hist.delivered => hist'.calls # hist.calls \/ hist.calls = 2
    /\ packet' # packet =>
         (last'.op = "encode" /\ last'.on = "opened" /\ last'.ok /\ received_packet')

\* C19: a call of nvenc_encode delivers at most one packet, so the packets
\* delivered never outnumber the calls; a delivered packet carries the pts
\* and dts the device gave, the video type tag, and as payload the
\* accumulation buffer with its length as size.
C19_Delivery ==
    /\ [](hist.delivered <= hist.calls)
    /\ [][DeliveryStep]_vars
    /\ [](Delivered =>
            /\ packet.pts = last.resp.pts
            /\ packet.dts = last.resp.dts
            /\ packet.type = "OBS_ENCODER_VIDEO"
            /\ packet.data = enc.buffer
            /\ packet.size = Len(enc.buffer))

\* two calls and one packet: the second call submitted the frame of time 0
\* and delivered the device's packet of pts 1, dts 0
C19_Witness ==
    /\ Delivered
    /\ hist.calls = 2
    /\ hist.delivered = 1
    /\ enc.vframe.pts = 0
    /\ packet.pts = 1
    /\ packet.dts = 0
    /\ packet.type = "OBS_ENCODER_VIDEO"
    /\ packet.size > 0
    /\ packet.size = Len(enc.buffer)

----------------------------------------------------------------------------
(* The properties view: rate_control_modified over the settings it is      *)
(* shown for                                                               *)

\* settings a view is opened on: any rate_control string a settings object
\* can hold, bitrate and quantizer inside the ranges of their properties
UiSettings ==
    { [DefaultSettings EXCEPT !.rate_control = rc, !.bitrate = b, !.cqp = q,
                              !.preset = p] :
        rc \in RateControls, b \in {50, 300000}, q \in {23, 50},
        p \in {"default", "hq", "llhp"} }

\* a view created by nvenc_properties, its callback not yet run
PropsInit ==
    /\ pc = "properties"
    /\ handle = "none"
    /\ enc = ZeroedEncoder
    /\ dev = [queued |-> 0]
    /\ packet = NoPacket
    /\ received_packet = FALSE
    /\ out = NoOut
    /\ last = NoCall
    /\ hist = NoHistory
    /\ svc = NoService
    /\ sh = NoShell
    /\ \E settings \in UiSettings :
         ui = [NoUi EXCEPT !.settings = settings]

\* the settings are applied to the view: the callback of the rate_control
\* property runs on them
ApplySettings ==
    /\ pc = "properties"
    /\ ui' = [ui EXCEPT !.props = rate_control_modified(@, ui.settings)]
    /\ pc' = "modified"
    /\ UNCHANGED <<svc, sh, handle, enc, dev, packet, received_packet, out, last,
                   hist>>

\* the user picks an item of the rate_control list: the setting changes and
\* the callback runs
SetRateControl ==
    /\ pc = "modified"
    /\ \E i \in 1 .. Len(ui.props.rate_control) :
         LET settings == [ui.settings EXCEPT
                            !.rate_control = ui.props.rate_control[i]]
         IN  ui' = [settings |-> settings,
                    props |-> rate_control_modified(ui.props, settings),
                    prior |-> ui.settings.rate_control]
    /\ UNCHANGED <<svc, sh, pc, handle, enc, dev, packet, received_packet, out, last,
                   hist>>

PropsNext == ApplySettings \/ SetRateControl

PropsSpec == PropsInit /\ [][PropsNext]_vars

\* the codec context nvenc_update would write for the settings in the view
TranslatedUi ==
    UpdateContext(AllocatedContext, ui.settings,
                  CHOOSE v \in VideoInfos : TRUE, CHOOSE x \in Encoders : TRUE)

\* C20: after rate_control_modified has run, the bitrate property is visible
\* exactly when rate_control is neither cqp nor lossless and the cqp property
\* exactly when it is cqp, in either case of the names; the bitrate is
\* visible exactly when nvenc_update writes the requested bitrate to the
\* device, the cqp property exactly when it writes the requested quantizer.
C20_Visibility ==
    pc = "modified" =>
      /\ ui.props.bitrate.visible <=>
           ui.settings.rate_control \notin (CqpNames \cup LosslessNames)
      /\ ui.props.cqp.visible <=> ui.settings.rate_control \in CqpNames
      /\ ui.props.bitrate.visible <=>
           TranslatedUi.bit_rate = ui.settings.bitrate * 1000
      /\ ui.props.cqp.visible <=>
           TranslatedUi.global_quality = ui.settings.cqp

\* the view after the callback ran for lossless: both properties hidden, the
\* hq preset disabled, and the translator uses neither value
C20_Witness ==
    /\ pc = "modified"
    /\ ui.settings.rate_control = "lossless"
    /\ ~ui.props.bitrate.visible
    /\ ~ui.props.cqp.visible
    /\ ui.props.preset[1].disabled
    /\ TranslatedUi.bit_rate = 0
    /\ TranslatedUi.global_quality = 0
\* the view shows lossless
ShowsLossless == ui.settings.rate_control \in LosslessNames

\* C21: whatever rate-control changes were made, the preset list holds the
\* seven items nvenc_properties added, in their order; once the callback has
\* run, the items other than those at positions 0 and 2 (default and hp) are
\* disabled exactly while the view shows lossless, and those two never are,
\* whatever was shown before.
C21_PresetList ==
    /\ DOMAIN ui.props.preset = 0 .. 6
    /\ \A i \in 0 .. 6 :
         ui.props.preset[i].name = nvenc_properties.preset[i].name
    /\ ui.props.preset[0].name = "default"
    /\ ui.props.preset[2].name = "hp"
    /\ pc = "modified" =>
         \A i \in 0 .. 6 :
           ui.props.preset[i].disabled <=> (ShowsLossless /\ i \notin {0, 2})

\* the user went from lossless to VBR: every preset is enabled again
C21_Witness ==
    /\ pc = "modified"
    /\ ui.prior = "lossless"
    /\ ui.settings.rate_control = "VBR"
    /\ \A i \in 0 .. 6 : ~ui.props.preset[i].disabled
----------------------------------------------------------------------------
(* The format negotiation: nvenc_video_info over every pair of formats     *)

\* enum video_format
VideoFormats ==
    {"VIDEO_FORMAT_NONE", "VIDEO_FORMAT_I420", "VIDEO_FORMAT_NV12",
     "VIDEO_FORMAT_YVYU", "VIDEO_FORMAT_YUY2", "VIDEO_FORMAT_UYVY",
     "VIDEO_FORMAT_RGBA", "VIDEO_FORMAT_BGRA", "VIDEO_FORMAT_BGRX",
     "VIDEO_FORMAT_Y800", "VIDEO_FORMAT_I444"}

\* a session whose encoder prefers one format, asked about a source that
\* proposes another in info->format
VideoInfoInit ==
    /\ pc = "video_info"
    /\ handle = "enc"
    /\ enc = [ZeroedEncoder EXCEPT !.nvenc = TRUE, !.first_packet = TRUE]
    /\ dev = [queued |-> 0]
    /\ packet = NoPacket
    /\ received_packet = FALSE
    /\ last = NoCall
    /\ ui = NoUi
    /\ svc = NoService
    /\ sh = NoShell
    /\ \E pref \in VideoFormats, proposed \in VideoFormats :
         /\ hist = [NoHistory EXCEPT !.encoder.pref_format = pref,
                                     !.voi.format = proposed]
         /\ out = [NoOut EXCEPT !.format = proposed]

\* the call of nvenc_video_info: info->format is rewritten
VideoInfoCall ==
    /\ pc = "video_info"
    /\ out' = [out EXCEPT
                 !.format = nvenc_video_info(hist.encoder.pref_format, @)]
    /\ last' = [NoCall EXCEPT !.op = "video_info", !.on = "opened", !.ok = TRUE]
    /\ pc' = "reported"
    /\ UNCHANGED <<svc, sh, ui, handle, enc, dev, packet, received_packet, hist>>

VideoInfoSpec == VideoInfoInit /\ [][VideoInfoCall]_vars

\* the formats the encoder accepts
SupportedFormats ==
    {"VIDEO_FORMAT_I420", "VIDEO_FORMAT_NV12", "VIDEO_FORMAT_I444"}

\* C22: for every preferred and every proposed format nvenc_video_info
\* reports one of I420, NV12 and I444: the preferred format if it is one of
\* them, otherwise the proposed format if it is one of them, otherwise NV12;
\* a proposed format outside the three is never reported.
C22_VideoInfo ==
    pc = "reported" =>
      /\ out.format \in SupportedFormats
      /\ out.format =
           IF hist.encoder.pref_format \in SupportedFormats
           THEN hist.encoder.pref_format
           ELSE IF hist.voi.format \in SupportedFormats
           THEN hist.voi.format
           ELSE "VIDEO_FORMAT_NV12"

\* no preference and an RGBA source: NV12 is reported
C22_Witness ==
    /\ pc = "reported"
    /\ hist.encoder.pref_format = "VIDEO_FORMAT_NONE"
    /\ hist.voi.format = "VIDEO_FORMAT_RGBA"
    /\ out.format = "VIDEO_FORMAT_NV12"
\* the codec context without the state of the device behind it
Parameters(ctx) == [ctx EXCEPT !.state = "any"]

\* C23: with the deprecated cbr setting true nvenc_update configures constant
\* bitrate whatever rate_control says: the bitrate is not zeroed, the
\* requested quantizer is not written, the requested preset stays in effect,
\* the CBR flag is set and the minimum and maximum rate equal the bitrate;
\* the context is the one rate_control = CBR gives.
C23_CbrOverride ==
    (pc = "configured" /\ hist.settings.cbr) =>
      /\ enc.context.priv.cbr
      /\ enc.context.bit_rate = hist.settings.bitrate * 1000
      /\ enc.context.rc_buffer_size = hist.settings.bitrate * 1000
      /\ enc.context.rc_min_rate = hist.settings.bitrate * 1000
      /\ enc.context.rc_max_rate = hist.settings.bitrate * 1000
      /\ enc.context.global_quality = AllocatedContext.global_quality
      /\ enc.context.priv.preset = hist.settings.preset
      /\ Parameters(enc.context) =
           Parameters(UpdateContext(AllocatedContext,
                                    [hist.settings EXCEPT !.rate_control = "CBR",
                                                          !.cbr = FALSE],
                                    hist.voi, hist.encoder))

\* the flag set together with lossless and a high-performance preset: true
\* CBR at the requested bitrate, the preset as requested
C23_Witness ==
    /\ pc = "configured"
    /\ hist.settings.cbr
    /\ hist.settings.rate_control = "lossless"
    /\ hist.settings.preset = "llhp"
    /\ hist.settings.bitrate = 300000
    /\ hist.settings.cqp = 50
    /\ enc.context.bit_rate = 300000000
    /\ enc.context.rc_max_rate = 300000000
    /\ enc.context.global_quality = 0
    /\ enc.context.priv.preset = "llhp"
    /\ enc.context.priv.cbr
\* a step that is an nvenc_encode call on the open session in which the
\* device failed or returned no packet or an empty one leaves the buffers,
\* the first_packet flag and the caller's packet alone
NonProducingStep ==
    (/\ pc = "idle"
     /\ last'.op = "encode"
     /\ last'.on = "opened"
     /\ ~Emitted(last'.resp)) =>
        /\ enc'.buffer = enc.buffer
        /\ enc'.first_packet = enc.first_packet
        /\ enc'.header = enc.header
        /\ enc'.header_size = enc.header_size
        /\ enc'.sei = enc.sei
        /\ enc'.sei_size = enc.sei_size
        /\ packet' = packet

\* C24: an nvenc_encode call that fails or produces no packet leaves the
\* accumulation buffer, first_packet, header and SEI unchanged and does not
\* write the caller's packet; so between producing calls the packet last
\* returned still shows the bytes of the accumulation buffer.
C24_NonProducing ==
    /\ [][NonProducingStep]_vars
    /\ []((pc = "idle" /\ hist.delivered > 0) =>
             /\ packet.data = enc.buffer
             /\ packet.size = Len(enc.buffer))

\* a packet was delivered, and the call after it failed in the device: the
\* packet still shows the buffer, after another frame was staged
C24_Witness ==
    /\ pc = "idle"
    /\ hist.delivered = 1
    /\ hist.calls = 2
    /\ EncodeReturned
    /\ ~last.ok
    /\ packet.size > 0
    /\ packet.data = enc.buffer
    /\ ~enc.first_packet

(***************************************************************************)
(* The DaCast service (rtmp-dacast.c): the settings the properties view    *)
(* edits, struct rtmp_dacast that rtmp_dacast_update fills from them, and  *)
(* the accessors the output reads.  In DacastSpec a service is created,    *)
(* channels are selected in its properties, the settings are applied and   *)
(* the accessors are called, in any order.                                 *)
(***************************************************************************)

\* the "channels" array of the settings as fetch_channels stored it: a full
\* HTML5 channel, a channel without stream name, one without config object,
\* one without publishing point, one with an integer id, and a second
\* channel with the id of the first
Channels ==
    << [id_str |-> "1", id_int |-> 0, has_config |-> TRUE, html5 |-> TRUE,
        config |-> [publishing_point_primary |-> "rtmp://p1",
                    stream_name |-> "s1", login |-> "u1", password |-> "w1"]],
       [id_str |-> "2", id_int |-> 0, has_config |-> TRUE, html5 |-> FALSE,
        config |-> [publishing_point_primary |-> "rtmp://p2",
                    stream_name |-> "", login |-> "u2", password |-> "w2"]],
       [id_str |-> "3", id_int |-> 0, has_config |-> FALSE, html5 |-> TRUE,
        config |-> [publishing_point_primary |-> "", stream_name |-> "",
                    login |-> "", password |-> ""]],
       [id_str |-> "4", id_int |-> 0, has_config |-> TRUE, html5 |-> TRUE,
        config |-> [publishing_point_primary |-> "", stream_name |-> "s4",
                    login |-> "u4", password |-> "w4"]],
       [id_str |-> "", id_int |-> 5, has_config |-> TRUE, html5 |-> TRUE,
        config |-> [publishing_point_primary |-> "rtmp://p5",
                    stream_name |-> "s5", login |-> "", password |-> ""]],
       [id_str |-> "1", id_int |-> 0, has_config |-> TRUE, html5 |-> FALSE,
        config |-> [publishing_point_primary |-> "rtmp://p6",
                    stream_name |-> "s6", login |-> "u6", password |-> "w6"]] >>

\* the values of the "channel" setting: no channel, the listed ids, and an
\* id that is not in the list
ChannelIds == {"", "1", "2", "3", "4", "5", "9"}

\* update_settings_for_channel, returning also when the stream name is missing
update_settings_for_channel_NeedsKey(settings, channel) ==
    IF ~channel.has_config
    THEN settings
    ELSE IF channel.config.publishing_point_primary = ""
              \/ channel.config.stream_name = ""
         THEN settings
         ELSE [settings EXCEPT
                 !.server = channel.config.publishing_point_primary,
                 !.stream_key = channel.config.stream_name,
                 !.username = channel.config.login,
                 !.password = channel.config.password,
                 !.use_auth = channel.html5]

update_settings_for_channel(settings, channel) ==
    IF ~channel.has_config
    THEN settings
    ELSE IF channel.config.publishing_point_primary = ""
         THEN settings
         ELSE [settings EXCEPT
                 !.server = channel.config.publishing_point_primary,
                 !.stream_key = channel.config.stream_name,
                 !.username = channel.config.login,
                 !.password = channel.config.password,
                 !.use_auth = channel.html5]

rtmp_dacast_channel_id(channel) ==
    IF channel.id_str # ""
    THEN channel.id_str
    ELSE IF channel.id_int # 0 THEN ToString(channel.id_int) ELSE ""

\* the loop of handle_channel_selected: the index of the first channel from
\* position i on whose id is the one looked for, 0 when the array ends
RECURSIVE FindChannel(_, _)
FindChannel(id, i) ==
    IF i > Len(Channels)
    THEN 0
    ELSE IF rtmp_dacast_channel_id(Channels[i]) # ""
              /\ rtmp_dacast_channel_id(Channels[i]) = id
         THEN i
         ELSE FindChannel(id, i + 1)

handle_channel_selected(settings) ==
    IF settings.channel = ""
    THEN settings
    ELSE LET i == FindChannel(settings.channel, 1)
         IN  IF i # 0
             THEN update_settings_for_channel(settings, Channels[i])
             ELSE settings

\* rtmp_dacast_update keeping the stored user name when the new one is empty
rtmp_dacast_update_KeepsUsername(plugin, settings) ==
    [api_key |-> Str(settings.api_key),
     server |-> Str(settings.server),
     stream_key |-> Str(settings.stream_key),
     username |-> IF settings.username = "" /\ ~plugin.username.null
                  THEN plugin.username
                  ELSE Str(settings.username),
     password |-> Str(settings.password),
     use_auth |-> settings.use_auth]

\* bstrdup of each string of the settings; the strings held before are freed
rtmp_dacast_update(plugin, settings) ==
    [api_key |-> Str(settings.api_key),
     server |-> Str(settings.server),
     stream_key |-> Str(settings.stream_key),
     username |-> Str(settings.username),
     password |-> Str(settings.password),
     use_auth |-> settings.use_auth]

rtmp_dacast_url(plugin) == plugin.server

rtmp_dacast_stream_key(plugin) == plugin.stream_key

rtmp_dacast_username(plugin) ==
    IF ~plugin.use_auth THEN NullStr ELSE plugin.username

rtmp_dacast_password(plugin) ==
    IF ~plugin.use_auth THEN NullStr ELSE plugin.password

\* the settings a service can be created with
ServiceSettings ==
    { [NoServiceSettings EXCEPT
         !.api_key = "k0", !.server = server, !.stream_key = "s0",
         !.username = username, !.password = "w0", !.use_auth = use_auth] :
        server \in {"", "rtmp://p0"}, username \in {"", "u0"},
        use_auth \in BOOLEAN }

DacastInit ==
    /\ pc = "svc_none"
    /\ handle = "none"
    /\ enc = ZeroedEncoder
    /\ dev = [queued |-> 0]
    /\ packet = NoPacket
    /\ received_packet = FALSE
    /\ out = NoOut
    /\ last = NoCall
    /\ hist = NoHistory
    /\ ui = NoUi
    /\ sh = NoShell
    /\ \E settings \in ServiceSettings :
         svc = [NoService EXCEPT !.settings = settings]

DacastUnchanged ==
    UNCHANGED <<sh, ui, handle, enc, dev, packet, received_packet, out, last,
                hist>>

\* rtmp_dacast_create: bzalloc, then rtmp_dacast_update
DacastCreate ==
    /\ pc = "svc_none"
    /\ pc' = "svc_idle"
    /\ svc' = [svc EXCEPT
                 !.plugin = rtmp_dacast_update(ZeroedPlugin, svc.settings),
                 !.applied = svc.settings,
                 !.ret = [op |-> "create", value |-> NullStr]]
    /\ DacastUnchanged

\* the user picks a channel in the properties: the setting changes and the
\* modified callback of the "channel" property runs
SelectChannel ==
    /\ pc \in {"svc_none", "svc_idle"}
    /\ \E id \in ChannelIds :
         svc' = [svc EXCEPT
                   !.settings =
                     handle_channel_selected([@ EXCEPT !.channel = id])]
    /\ UNCHANGED pc
    /\ DacastUnchanged

\* the frontend applies the settings to the service
DacastUpdate ==
    /\ pc = "svc_idle"
    /\ svc' = [svc EXCEPT
                 !.plugin = rtmp_dacast_update(@, svc.settings),
                 !.applied = svc.settings,
                 !.ret = [op |-> "update", value |-> NullStr]]
    /\ UNCHANGED pc
    /\ DacastUnchanged

DacastUrl ==
    /\ pc = "svc_idle"
    /\ svc' = [svc EXCEPT
                 !.ret = [op |-> "url", value |-> rtmp_dacast_url(svc.plugin)]]
    /\ UNCHANGED pc
    /\ DacastUnchanged

DacastStreamKey ==
    /\ pc = "svc_idle"
    /\ svc' = [svc EXCEPT
                 !.ret = [op |-> "stream_key",
                          value |-> rtmp_dacast_stream_key(svc.plugin)]]
    /\ UNCHANGED pc
    /\ DacastUnchanged

DacastUsername ==
    /\ pc = "svc_idle"
    /\ svc' = [svc EXCEPT
                 !.ret = [op |-> "username",
                          value |-> rtmp_dacast_username(svc.plugin)]]
    /\ UNCHANGED pc
    /\ DacastUnchanged

DacastPassword ==
    /\ pc = "svc_idle"
    /\ svc' = [svc EXCEPT
                 !.ret = [op |-> "password",
                          value |-> rtmp_dacast_password(svc.plugin)]]
    /\ UNCHANGED pc
    /\ DacastUnchanged

\* rtmp_dacast_destroy frees the strings and the structure
DacastDestroy ==
    /\ pc = "svc_idle"
    /\ pc' = "svc_destroyed"
    /\ svc' = [svc EXCEPT
                 !.plugin = ZeroedPlugin,
                 !.ret = [op |-> "destroy", value |-> NullStr]]
    /\ DacastUnchanged

DacastNext ==
    \/ DacastCreate
    \/ SelectChannel
    \/ DacastUpdate
    \/ DacastUrl
    \/ DacastStreamKey
    \/ DacastUsername
    \/ DacastPassword
    \/ DacastDestroy

DacastSpec == DacastInit /\ [][DacastNext]_vars

\* C25: the user name and the password are returned as NULL whenever use_auth
\* is false and as stored otherwise, and whatever updates came before, every
\* accessor returns the value of the settings applied last
C25_Accessors ==
    pc = "svc_idle" =>
        /\ svc.ret.op = "url" => svc.ret.value = Str(svc.applied.server)
        /\ svc.ret.op = "stream_key" =>
               svc.ret.value = Str(svc.applied.stream_key)
        /\ svc.ret.op = "username" =>
               svc.ret.value = IF svc.applied.use_auth
                               THEN Str(svc.applied.username)
                               ELSE NullStr
        /\ svc.ret.op = "password" =>
               svc.ret.value = IF svc.applied.use_auth
                               THEN Str(svc.applied.password)
                               ELSE NullStr
        /\ svc.plugin.use_auth = svc.applied.use_auth

\* a user name is stored but use_auth is off, the settings have been edited
\* since they were applied, and rtmp_dacast_username returned NULL
C25_Witness ==
    /\ pc = "svc_idle"
    /\ svc.ret.op = "username"
    /\ svc.ret.value = NullStr
    /\ svc.applied.username = "u2"
    /\ ~svc.applied.use_auth
    /\ svc.settings # svc.applied

\* the five settings update_settings_for_channel writes
Connection(settings) ==
    <<settings.server, settings.stream_key, settings.username,
      settings.password, settings.use_auth>>

\* the positions of the channels whose id is the selected one
Matching(id) ==
    { i \in 1 .. Len(Channels) :
        id # "" /\ rtmp_dacast_channel_id(Channels[i]) = id }

\* a step that edits the settings leaves the connection settings as they
\* were when the selected channel has no config object or no primary
\* publishing point, and writes all five from the channel otherwise
SelectionStep ==
    svc'.settings # svc.settings =>
        /\ svc'.settings.api_key = svc.settings.api_key
        /\ IF Matching(svc'.settings.channel) = {}
           THEN Connection(svc'.settings) = Connection(svc.settings)
           ELSE LET first == CHOOSE i \in Matching(svc'.settings.channel) :
                                 \A j \in Matching(svc'.settings.channel) :
                                     i <= j
                    channel == Channels[first]
                IN  IF ~channel.has_config
                         \/ channel.config.publishing_point_primary = ""
                    THEN Connection(svc'.settings) = Connection(svc.settings)
                    ELSE Connection(svc'.settings) =
                             <<channel.config.publishing_point_primary,
                               channel.config.stream_name,
                               channel.config.login,
                               channel.config.password,
                               channel.html5>>

\* C26: selecting a channel leaves server, stream_key, username, password and
\* use_auth unchanged when the channel has no config object or its primary
\* publishing point is missing or empty; otherwise all five are written from
\* the channel, use_auth from html5, also when only the stream name is empty
C26_ChannelSelected == [][SelectionStep]_vars

\* the channel without stream name is selected: its server and credentials
\* are in the settings, the stream key is empty and use_auth is off
C26_Witness ==
    /\ svc.settings.channel = "2"
    /\ Connection(svc.settings) = <<"rtmp://p2", "", "u2", "w2", FALSE>>

(***************************************************************************)
(* fixup_bundle.sh, lines 27-48: the libraries a bundle depends on are     *)
(* found by running otool -L over the executables and over the libraries   *)
(* found so far until the list stops changing.  A file is a number: the    *)
(* executable of the bundle, the libraries outside the system directories, *)
(* and one library under /usr/lib/.  The output of otool -L is the         *)
(* environment: in FixupSpec it is any function from files to sets of      *)
(* files.                                                                  *)
(***************************************************************************)

\* the executable find reports
Executable == 0

\* the absolute paths outside /System/ and /usr/lib/
Libs == 1 .. NumLibs

\* a path under /usr/lib/
SystemLib == NumLibs + 1

\* buildlist following the libraries of the system directories too
buildlist_KeepsSystem(otool, files) ==
    UNION { otool[f] : f \in files }

\* the paths otool -L lists for the files, without those under /System/ and
\* /usr/lib/, each once
buildlist(otool, files) ==
    { l \in UNION { otool[f] : f \in files } : l # SystemLib }

\* line 47 without $TARGETS
NextFound_LibsOnly(otool, targets, found) ==
    buildlist(otool, found)

\* line 47: buildlist $TARGETS $PFOUNDLIBS
NextFound(otool, targets, found) ==
    buildlist(otool, targets \cup found)

\* what otool -L can print for the files of a bundle
OtoolOutputs ==
    [ {Executable} \cup Libs \cup {SystemLib} -> SUBSET (Libs \cup {SystemLib}) ]

FixupInit ==
    /\ pc = "sh_start"
    /\ handle = "none"
    /\ enc = ZeroedEncoder
    /\ dev = [queued |-> 0]
    /\ packet = NoPacket
    /\ received_packet = FALSE
    /\ out = NoOut
    /\ last = NoCall
    /\ hist = NoHistory
    /\ ui = NoUi
    /\ svc = NoService
    /\ \E otool \in OtoolOutputs :
         /\ otool[SystemLib] \in {{}, {1}}
         /\ sh = [NoShell EXCEPT !.otool = otool]

FixupUnchanged ==
    UNCHANGED <<svc, ui, handle, enc, dev, packet, received_packet, out, last,
                hist>>

\* lines 41-43
FindTargets ==
    /\ pc = "sh_start"
    /\ pc' = "sh_loop"
    /\ sh' = [sh EXCEPT
                !.TARGETS = {Executable},
                !.FOUNDLIBS = buildlist(sh.otool, {Executable}),
                !.PFOUNDLIBS = {}]
    /\ FixupUnchanged

\* lines 45-47: the test succeeds and the body runs
LoopBody ==
    /\ pc = "sh_loop"
    /\ sh.FOUNDLIBS # sh.PFOUNDLIBS
    /\ sh' = [sh EXCEPT
                !.PFOUNDLIBS = sh.FOUNDLIBS,
                !.FOUNDLIBS = NextFound(sh.otool, sh.TARGETS, sh.FOUNDLIBS),
                !.rounds = @ + 1]
    /\ UNCHANGED pc
    /\ FixupUnchanged

\* line 45: the test fails and the loop is left
LoopExit ==
    /\ pc = "sh_loop"
    /\ ~(sh.FOUNDLIBS # sh.PFOUNDLIBS)
    /\ pc' = "sh_found"
    /\ UNCHANGED sh
    /\ FixupUnchanged

FixupNext == FindTargets \/ LoopBody \/ LoopExit

FixupSpec == FixupInit /\ [][FixupNext]_vars

\* the script runs to its end: a step that can be taken is taken
FixupFairSpec == FixupSpec /\ WF_vars(FixupNext)

\* a library is a dependency of the bundle when a chain of otool entries
\* leads to it from the executable through libraries outside the system
\* directories
Dependencies ==
    { l \in Libs :
        \E n \in 1 .. NumLibs :
          \E chain \in [1 .. n -> Libs] :
            /\ chain[1] \in sh.otool[Executable]
            /\ \A i \in 1 .. n - 1 : chain[i + 1] \in sh.otool[chain[i]]
            /\ chain[n] = l }

\* no step removes a library from the list, and the loop is left by the
\* step after an iteration that added none
DiscoveryStep ==
    /\ sh.FOUNDLIBS \subseteq sh'.FOUNDLIBS
    /\ pc = "sh_loop" =>
           (pc' = "sh_found" <=> sh.FOUNDLIBS \subseteq sh.PFOUNDLIBS)

\* C27: for every dependency graph the loop ends; the list of each iteration
\* contains the list of the iteration before, the loop is left exactly when
\* an iteration added no library, and the list is then the set of libraries
\* outside the system directories reachable from the executable
C27_Discovery ==
    /\ <>(pc = "sh_found")
    /\ [][DiscoveryStep]_vars
    /\ [](pc = "sh_found" => sh.FOUNDLIBS = Dependencies)

\* the executable lists a library and an entry under /usr/lib/, the library
\* lists a second one: the loop ended after two rounds with the two
\* libraries and without the entry under /usr/lib/
C27_Witness ==
    /\ pc = "sh_found"
    /\ sh.otool[Executable] = {1, SystemLib}
    /\ sh.otool[1] = {2}
    /\ sh.otool[2] = {1, 2}
    /\ sh.FOUNDLIBS = {1, 2}
    /\ sh.rounds = 2

====
